---- MODULE Spec2Model ----
\* Model of src/app/page.js: the Home component (upload, parameters, trigger,
\* teardown) and the deferred contour pipeline of runContours, with the
\* buffers of the vision library tracked by allocation and release.
EXTENDS Integers, Sequences, FiniteSets, TLC

VARIABLES
    mounted,     \* the component is mounted (between the effect and its cleanup)
    ready,       \* useState(false): ready
    readyTimer,  \* the setTimeout of the mount effect is pending
    status,      \* useState(""): status
    step,        \* useState(12)
    canny1,      \* useState(80)
    canny2,      \* useState(160)
    objectUrl,   \* objectUrlRef.current (0 is null)
    liveUrls,    \* object URLs created and not yet revoked
    nextUrl,     \* number of object URLs created so far
    img,         \* the hidden <img>: src, decoded image, image being loaded
    canvas,      \* the <canvas>: width, height, content
    tasks,       \* pending setTimeout callbacks of runContours, in order
    lastEvent,   \* the handler that ran last
    pc,          \* position of the running pipeline callback ("idle": none)
    params,      \* step, canny1, canny2 captured by the running callback
    srcBuf,      \* the buffer the local variable src refers to
    dims,        \* <<cols, rows>> of src
    dsizeReq,    \* the size passed to cv.resize (<<-1, -1>>: not called)
    allocd,      \* buffers allocated by the running callback
    dels,        \* delete() calls per buffer in the running callback
    uaf,         \* buffers used after their delete()
    contourRows, \* rows (vertex count) of each contour found
    idx,         \* loop variable i of the annotation loop
    plotted,     \* markers drawn per contour so far
    drawLog,     \* the drawing calls on dst, in order
    threw,       \* the call that threw in the running callback ("none")
    result       \* the argument of the callback's final setStatus

uiVars == <<mounted, ready, readyTimer, status, step, canny1, canny2,
            objectUrl, liveUrls, nextUrl, img, canvas, tasks, lastEvent>>
runVars == <<pc, params, srcBuf, dims, dsizeReq, allocd, dels, uaf,
             contourRows, idx, plotted, drawLog, threw, result>>
vars == <<mounted, ready, readyTimer, status, step, canny1, canny2,
          objectUrl, liveUrls, nextUrl, img, canvas, tasks, lastEvent,
          pc, params, srcBuf, dims, dsizeReq, allocd, dels, uaf,
          contourRows, idx, plotted, drawLog, threw, result>>

-----------------------------------------------------------------------------
\* Bounds of the model

MaxUploads == 2
MaxPending == 2
MaxContours == 2
SideSpread == 2

\* Program constants

MaxDim == 1200
MAX_PLOT_POINTS == 3000
DefaultStep == 12
DefaultCanny1 == 80
DefaultCanny2 == 160

\* Inputs

NoFile == 0
Files == {1, 2}
FileDims(f) == IF f = 1 THEN <<800, 600>> ELSE <<2000, 1000>>

StepValues == {1, DefaultStep}
Canny1Values == {DefaultCanny1, 300}
Canny2Values == {DefaultCanny2, 0}
RowValues == {4}

Max(a, b) == IF a >= b THEN a ELSE b

-----------------------------------------------------------------------------
\* Status strings

Status(text, count, msg) == [text |-> text, count |-> count, msg |-> msg]
StatusEmpty == Status("", -1, "")
StatusLoaded == Status("Image loaded. Click 'Detect Contours'.", -1, "")
StatusUploadFirst == Status("Please upload an image first.", -1, "")
StatusProcessing == Status("Processing...", -1, "")
StatusDone(n) == Status("Done. Contours found: ", n, "")
StatusError(msg) == Status("Processing error: ", -1, msg)

\* A state setter called after unmount has no effect.
SetStatus(s) == IF mounted THEN s ELSE status

\* disabled={!ready} on the file input, the sliders and the button
Disabled == ~ready

-----------------------------------------------------------------------------
\* Buffers of the vision library

Buf(name, k) == <<name, k>>
SRC == Buf("src", 0)
RESIZED == Buf("resized", 0)
DST == Buf("dst", 0)
GRAY == Buf("gray", 0)
BLUR == Buf("blur", 0)
EDGES == Buf("edges", 0)
CONTOURS == Buf("contours", 0)
HIERARCHY == Buf("hierarchy", 0)
CNT(k) == Buf("cnt", k)
Buffers == {SRC, RESIZED, DST, GRAY, BLUR, EDGES, CONTOURS, HIERARCHY}
             \cup {CNT(k) : k \in 0..(MaxContours - 1)}

NoSize == <<-1, -1>>
NoParams == [step |-> 0, canny1 |-> 0, canny2 |-> 0]
NoDels == [b \in Buffers |-> 0]

RunIdle ==
    /\ pc = "idle"
    /\ params = NoParams
    /\ srcBuf = SRC
    /\ dims = <<0, 0>>
    /\ dsizeReq = NoSize
    /\ allocd = {}
    /\ dels = NoDels
    /\ uaf = {}
    /\ contourRows = <<>>
    /\ idx = 0
    /\ plotted = <<>>
    /\ drawLog = <<>>
    /\ threw = "none"
    /\ result = StatusEmpty

Init ==
    /\ mounted = TRUE
    /\ ready = FALSE
    /\ readyTimer = TRUE
    /\ status = StatusEmpty
    /\ step = DefaultStep
    /\ canny1 = DefaultCanny1
    /\ canny2 = DefaultCanny2
    /\ objectUrl = 0
    /\ liveUrls = {}
    /\ nextUrl = 0
    /\ img = [src |-> 0, cur |-> NoFile, pend |-> NoFile]
    /\ canvas = [w |-> 300, h |-> 150, content |-> "initial"]
    /\ tasks = <<>>
    /\ lastEvent = "mount"
    /\ RunIdle

-----------------------------------------------------------------------------
\* Event handlers of the component. The pipeline callback runs to completion
\* in one task, so no handler runs while pc # "idle".

\* setTimeout(() => setReady(true), 0)
ReadyTimer ==
    /\ pc = "idle" /\ readyTimer
    /\ readyTimer' = FALSE
    /\ ready' = TRUE
    /\ lastEvent' = "ready"
    /\ UNCHANGED <<mounted, status, step, canny1, canny2, objectUrl, liveUrls,
                   nextUrl, img, canvas, tasks>>
    /\ UNCHANGED runVars

\* Faulty variant: the URL is not revoked.
RevokeNothing(live, url) == live

\* URL.revokeObjectURL(url)
RevokeObjectURL(live, url) == live \ {url}

\* the cleanup of the mount effect
Teardown ==
    /\ pc = "idle" /\ mounted
    /\ mounted' = FALSE
    /\ readyTimer' = FALSE
    /\ liveUrls' = IF objectUrl # 0 THEN RevokeObjectURL(liveUrls, objectUrl)
                    ELSE liveUrls
    /\ objectUrl' = 0
    /\ lastEvent' = "teardown"
    /\ UNCHANGED <<ready, status, step, canny1, canny2, nextUrl, img, canvas, tasks>>
    /\ UNCHANGED runVars

\* Faulty variant: onFile without the early return on an empty selection; the held
\* URL is revoked before createObjectURL rejects the missing file.
OnFileNoGuard(file) ==
    /\ pc = "idle" /\ mounted /\ ~Disabled
    /\ IF file = NoFile
       THEN /\ lastEvent' = "onFileEmpty"
            /\ liveUrls' = IF objectUrl # 0 THEN liveUrls \ {objectUrl} ELSE liveUrls
            /\ UNCHANGED <<status, objectUrl, nextUrl, img>>
       ELSE /\ nextUrl < MaxUploads
            /\ nextUrl' = nextUrl + 1
            /\ liveUrls' = (IF objectUrl # 0 THEN liveUrls \ {objectUrl} ELSE liveUrls)
                             \cup {nextUrl + 1}
            /\ objectUrl' = nextUrl + 1
            /\ img' = [src |-> nextUrl + 1, cur |-> img.cur, pend |-> file]
            /\ status' = StatusLoaded
            /\ lastEvent' = "onFile"
    /\ UNCHANGED <<mounted, ready, readyTimer, step, canny1, canny2, canvas, tasks>>
    /\ UNCHANGED runVars

\* onFile with e.target.files[0] = file (NoFile: empty selection)
OnFile(file) ==
    /\ pc = "idle" /\ mounted /\ ~Disabled
    /\ IF file = NoFile
       THEN /\ lastEvent' = "onFileEmpty"
            /\ UNCHANGED <<status, objectUrl, liveUrls, nextUrl, img>>
       ELSE /\ nextUrl < MaxUploads
            /\ nextUrl' = nextUrl + 1
            /\ liveUrls' = (IF objectUrl # 0
                             THEN RevokeObjectURL(liveUrls, objectUrl)
                             ELSE liveUrls) \cup {nextUrl + 1}
            /\ objectUrl' = nextUrl + 1
            /\ img' = [src |-> nextUrl + 1, cur |-> img.cur, pend |-> file]
            /\ status' = StatusLoaded
            /\ lastEvent' = "onFile"
    /\ UNCHANGED <<mounted, ready, readyTimer, step, canny1, canny2, canvas, tasks>>
    /\ UNCHANGED runVars

\* the <img> finishes loading its src: onLoad
ImgLoad ==
    /\ pc = "idle" /\ mounted /\ img.pend # NoFile
    /\ img' = [img EXCEPT !.cur = img.pend, !.pend = NoFile]
    /\ status' = StatusLoaded
    /\ lastEvent' = "imgLoad"
    /\ UNCHANGED <<mounted, ready, readyTimer, step, canny1, canny2, objectUrl,
                   liveUrls, nextUrl, canvas, tasks>>
    /\ UNCHANGED runVars

\* the <img> fails to load its src (not an image): no onError handler
ImgError ==
    /\ pc = "idle" /\ mounted /\ img.pend # NoFile
    /\ img' = [img EXCEPT !.cur = NoFile, !.pend = NoFile]
    /\ lastEvent' = "imgError"
    /\ UNCHANGED <<mounted, ready, readyTimer, status, step, canny1, canny2,
                   objectUrl, liveUrls, nextUrl, canvas, tasks>>
    /\ UNCHANGED runVars

\* Faulty variant: the dispatched callbacks read the live stride.
SetStepLive(v) ==
    /\ pc = "idle" /\ mounted /\ ~Disabled
    /\ step' = v
    /\ tasks' = [k \in DOMAIN tasks |-> [tasks[k] EXCEPT !.step = v]]
    /\ lastEvent' = "setStep"
    /\ UNCHANGED <<mounted, ready, readyTimer, status, canny1, canny2, objectUrl,
                   liveUrls, nextUrl, img, canvas>>
    /\ UNCHANGED runVars

\* onChange={(e) => setStep(e.target.value)}
SetStep(v) ==
    /\ pc = "idle" /\ mounted /\ ~Disabled
    /\ step' = v
    /\ lastEvent' = "setStep"
    /\ UNCHANGED <<mounted, ready, readyTimer, status, canny1, canny2, objectUrl,
                   liveUrls, nextUrl, img, canvas, tasks>>
    /\ UNCHANGED runVars

SetCanny1(v) ==
    /\ pc = "idle" /\ mounted /\ ~Disabled
    /\ canny1' = v
    /\ lastEvent' = "setCanny1"
    /\ UNCHANGED <<mounted, ready, readyTimer, status, step, canny2, objectUrl,
                   liveUrls, nextUrl, img, canvas, tasks>>
    /\ UNCHANGED runVars

SetCanny2(v) ==
    /\ pc = "idle" /\ mounted /\ ~Disabled
    /\ canny2' = v
    /\ lastEvent' = "setCanny2"
    /\ UNCHANGED <<mounted, ready, readyTimer, status, step, canny1, objectUrl,
                   liveUrls, nextUrl, img, canvas, tasks>>
    /\ UNCHANGED runVars

\* Faulty variant: runContours without the return after "Please upload an image
\* first.": the run is dispatched all the same.
RunContoursNoReturn ==
    /\ pc = "idle" /\ mounted
    /\ IF ~ready
       THEN UNCHANGED <<status, tasks>>
       ELSE /\ Len(tasks) < MaxPending
            /\ status' = StatusProcessing
            /\ tasks' = Append(tasks, [step |-> step, canny1 |-> canny1,
                                        canny2 |-> canny2])
    /\ lastEvent' = "click"
    /\ UNCHANGED <<mounted, ready, readyTimer, step, canny1, canny2, objectUrl,
                   liveUrls, nextUrl, img, canvas>>
    /\ UNCHANGED runVars

\* Faulty variant: the callback is scheduled without setting the status.
RunContoursNoStatus ==
    /\ pc = "idle" /\ mounted
    /\ IF ~ready
       THEN UNCHANGED <<status, tasks>>
       ELSE IF img.src = 0
       THEN /\ status' = StatusUploadFirst
            /\ UNCHANGED tasks
       ELSE /\ Len(tasks) < MaxPending
            /\ UNCHANGED status
            /\ tasks' = Append(tasks, [step |-> step, canny1 |-> canny1,
                                        canny2 |-> canny2])
    /\ lastEvent' = "click"
    /\ UNCHANGED <<mounted, ready, readyTimer, step, canny1, canny2, objectUrl,
                   liveUrls, nextUrl, img, canvas>>
    /\ UNCHANGED runVars

\* runContours up to its setTimeout: the click handler of the button
RunContours ==
    /\ pc = "idle" /\ mounted
    /\ IF ~ready
       THEN UNCHANGED <<status, tasks>>
       ELSE IF img.src = 0
       THEN /\ status' = StatusUploadFirst
            /\ UNCHANGED tasks
       ELSE /\ Len(tasks) < MaxPending
            /\ status' = StatusProcessing
            /\ tasks' = Append(tasks, [step |-> step, canny1 |-> canny1,
                                        canny2 |-> canny2])
    /\ lastEvent' = "click"
    /\ UNCHANGED <<mounted, ready, readyTimer, step, canny1, canny2, objectUrl,
                   liveUrls, nextUrl, img, canvas>>
    /\ UNCHANGED runVars

-----------------------------------------------------------------------------
\* downscaleIfNeeded

\* Faulty variant: the comparison is strict.
KeepsSizeStrict(maxSide, maxDim) == maxSide < maxDim

\* if (maxSide <= maxDim) return src;
KeepsSize(maxSide, maxDim) == maxSide <= maxDim

\* Faulty variant: Math.floor in place of Math.round.
RoundDown(n, maxDim, maxSide) == {(n * maxDim) \div maxSide}

\* Math.round(n * (maxDim / maxSide)): the nearest integer, halves up. The
\* product is a double, so a real value of exactly k + 1/2 can come out just
\* below the half and round to k (159 * (1200 / 1696) gives 112).
RoundScaled(n, maxDim, maxSide) ==
    LET k == (2 * n * maxDim + maxSide) \div (2 * maxSide)
        tie == (2 * n * maxDim + maxSide) % (2 * maxSide) = 0
    IN  IF tie THEN {k - 1, k} ELSE {k}

\* new cv.Size(Math.round(w * scale), Math.round(h * scale))
DsizeChoices(w, h, maxDim) ==
    LET maxSide == Max(w, h)
    IN  RoundScaled(w, maxDim, maxSide) \X RoundScaled(h, maxDim, maxSide)

-----------------------------------------------------------------------------
\* The deferred callback of runContours, one action per library stage. A
\* stage that throws lands in the catch block within the same action.

\* Faulty variant: the catch block logs the error and sets no status.
CatchSilent(stage) ==
    /\ threw' = stage
    /\ pc' = "done"
    /\ UNCHANGED <<status, result>>

\* catch (err) { console.error(err); setStatus(`Processing error: ...`) }
Catch(stage) ==
    /\ threw' = stage
    /\ result' = StatusError(stage)
    /\ status' = SetStatus(StatusError(stage))
    /\ pc' = "done"

NoThrow(next) ==
    /\ pc' = next
    /\ UNCHANGED <<status, threw, result>>

\* buffers among bs that have been deleted when a call uses them
UsedAfterDelete(bs) == {b \in bs : dels[b] > 0}

uiFrame == UNCHANGED <<mounted, ready, readyTimer, step, canny1, canny2,
                       objectUrl, liveUrls, nextUrl, img, tasks, lastEvent>>

\* Faulty variant: the callback does nothing once the component is unmounted.
TaskStartIfMounted ==
    /\ pc = "idle" /\ tasks # <<>> /\ mounted
    /\ tasks' = Tail(tasks)
    /\ params' = Head(tasks)
    /\ lastEvent' = "task"
    /\ threw' = "none"
    /\ result' = StatusEmpty
    /\ pc' = "downscale"
    /\ allocd' = {SRC}
    /\ dims' = FileDims(Max(1, img.cur))
    /\ UNCHANGED <<mounted, ready, readyTimer, status, step, canny1, canny2,
                   objectUrl, liveUrls, nextUrl, img, canvas>>
    /\ UNCHANGED <<srcBuf, dsizeReq, dels, uaf, contourRows, idx, plotted, drawLog>>

\* the callback starts: let src = cv.imread(imgEl)
TaskStart ==
    /\ pc = "idle" /\ tasks # <<>>
    /\ tasks' = Tail(tasks)
    /\ params' = Head(tasks)
    /\ lastEvent' = "task"
    /\ \E fail \in BOOLEAN :
         IF img.cur = NoFile \/ fail
         THEN /\ Catch("imread")
              /\ UNCHANGED <<allocd, dims>>
         ELSE /\ NoThrow("downscale")
              /\ allocd' = {SRC}
              /\ dims' = FileDims(img.cur)
    /\ UNCHANGED <<mounted, ready, readyTimer, step, canny1, canny2, objectUrl,
                   liveUrls, nextUrl, img, canvas>>
    /\ UNCHANGED <<srcBuf, dsizeReq, dels, uaf, contourRows, idx, plotted, drawLog>>

\* src = downscaleIfNeeded(src, 1200)
Downscale ==
    /\ pc = "downscale"
    /\ IF KeepsSize(Max(dims[1], dims[2]), MaxDim)
       THEN /\ NoThrow("clone")
            /\ UNCHANGED <<srcBuf, dims, dsizeReq, allocd, dels, uaf>>
       ELSE \E dsize \in DsizeChoices(dims[1], dims[2], MaxDim), fail \in BOOLEAN :
            /\ dsizeReq' = dsize
            /\ allocd' = allocd \cup {RESIZED}
            /\ uaf' = uaf \cup UsedAfterDelete({srcBuf})
            /\ IF fail \/ dsize[1] <= 0 \/ dsize[2] <= 0
               THEN /\ Catch("resize")
                    /\ UNCHANGED <<srcBuf, dims, dels>>
               ELSE /\ NoThrow("clone")
                    /\ dels' = [dels EXCEPT ![srcBuf] = @ + 1]
                    /\ srcBuf' = RESIZED
                    /\ dims' = dsize
    /\ uiFrame
    /\ UNCHANGED <<canvas, params, contourRows, idx, plotted, drawLog>>

\* const dst = src.clone()
Clone ==
    /\ pc = "clone"
    /\ uaf' = uaf \cup UsedAfterDelete({srcBuf})
    /\ \E fail \in BOOLEAN :
         IF fail
         THEN Catch("clone") /\ UNCHANGED allocd
         ELSE NoThrow("gray") /\ allocd' = allocd \cup {DST}
    /\ uiFrame
    /\ UNCHANGED <<canvas, params, srcBuf, dims, dsizeReq, dels, contourRows,
                   idx, plotted, drawLog>>

\* A stage that allocates its outputs with new and then calls the library.
LibStage(at, call, outs, ins, next) ==
    /\ pc = at
    /\ allocd' = allocd \cup outs
    /\ uaf' = uaf \cup UsedAfterDelete(ins \cup outs)
    /\ \E fail \in BOOLEAN : IF fail THEN Catch(call) ELSE NoThrow(next)
    /\ uiFrame
    /\ UNCHANGED <<canvas, params, srcBuf, dims, dsizeReq, dels, idx, plotted, drawLog>>

\* const gray = new cv.Mat(); cv.cvtColor(src, gray, cv.COLOR_RGBA2GRAY)
CvtColor ==
    /\ LibStage("gray", "cvtColor", {GRAY}, {srcBuf}, "blur")
    /\ UNCHANGED contourRows

\* const blur = new cv.Mat(); cv.GaussianBlur(gray, blur, ...)
GaussianBlur ==
    /\ LibStage("blur", "GaussianBlur", {BLUR}, {GRAY}, "edges")
    /\ UNCHANGED contourRows

\* const edges = new cv.Mat(); cv.Canny(blur, edges, canny1, canny2)
Canny ==
    /\ LibStage("edges", "Canny", {EDGES}, {BLUR}, "contours")
    /\ UNCHANGED contourRows

ContourSeqs == UNION {[1..n -> RowValues] : n \in 0..MaxContours}

\* the loop test i < contours.size()
LoopOrRender(i, n) == IF i < n THEN "loop" ELSE "render"

\* new cv.MatVector(); new cv.Mat(); cv.findContours(edges, contours, hierarchy, ...)
FindContours ==
    \E found \in ContourSeqs :
        /\ LibStage("contours", "findContours", {CONTOURS, HIERARCHY}, {EDGES},
                    LoopOrRender(0, Len(found)))
        /\ contourRows' = IF pc' = "done" THEN contourRows ELSE found

-----------------------------------------------------------------------------
\* The annotation loop

\* const stride = Math.max(1, Number(step))
Stride(p) == Max(1, p.step)

\* for (let j = 0; j < cnt.rows; j += stride) {
\*   if (plotted++ > MAX_PLOT_POINTS) break;  ... cv.circle(...) }
\* One pass through the loop test and body, on the loop state: j, plotted,
\* the number of circles drawn, the vertex indices they were drawn at, and
\* whether the loop has been left.
\* Faulty variant: the first marker is drawn at vertex 1.
MarkerIterFromOne(st, rows, stride) ==
    IF st.left THEN st
    ELSE IF ~(st.j < rows) THEN [st EXCEPT !.left = TRUE]
    ELSE IF st.plotted > MAX_PLOT_POINTS
         THEN [st EXCEPT !.plotted = @ + 1, !.left = TRUE]
    ELSE [j |-> st.j + stride, plotted |-> st.plotted + 1,
          drawn |-> st.drawn + 1, marks |-> Append(st.marks, st.j + 1),
          left |-> FALSE]

MarkerIter(st, rows, stride) ==
    IF st.left THEN st
    ELSE IF ~(st.j < rows) THEN [st EXCEPT !.left = TRUE]
    ELSE IF st.plotted > MAX_PLOT_POINTS
         THEN [st EXCEPT !.plotted = @ + 1, !.left = TRUE]
    ELSE [j |-> st.j + stride, plotted |-> st.plotted + 1,
          drawn |-> st.drawn + 1, marks |-> Append(st.marks, st.j),
          left |-> FALSE]

\* The loop state after at most fuel passes, split in halves to keep the
\* evaluation shallow.
RECURSIVE MarkerLoop(_, _, _, _)
MarkerLoop(st, fuel, rows, stride) ==
    IF st.left \/ fuel = 0 THEN st
    ELSE IF fuel = 1 THEN MarkerIter(st, rows, stride)
    ELSE LET half == fuel \div 2
             mid == MarkerLoop(st, half, rows, stride)
         IN  MarkerLoop(mid, fuel - half, rows, stride)

\* The number of circles drawn for a contour: j grows by stride >= 1 each
\* pass, so the loop is left within rows + 1 passes.
MarkerRun(rows, stride) ==
    MarkerLoop([j |-> 0, plotted |-> 0, drawn |-> 0, marks |-> <<>>,
                left |-> FALSE], rows + 1, rows, stride)

Markers(rows, stride) == MarkerRun(rows, stride).drawn

\* the drawing calls: cv.drawContours(dst, contours, i, ...) and
\* cv.circle(dst, the point of vertex j of contour i, ...)
DrawContoursCall(i) == [call |-> "drawContours", contour |-> i, vertex |-> -1]
CircleCall(i, j) == [call |-> "circle", contour |-> i, vertex |-> j]

\* the calls of one pass of the contour loop that drew circles at marks
ContourCalls(i, marks) ==
    <<DrawContoursCall(i)>> \o [k \in DOMAIN marks |-> CircleCall(i, marks[k])]

\* One iteration of for (let i = 0; i < contours.size(); i++): contours.get(i),
\* cv.drawContours, the marker loop, cnt.delete().
Annotate ==
    /\ pc = "loop" /\ idx < Len(contourRows)
    /\ LET run == MarkerRun(contourRows[idx + 1], Stride(params))
           n == run.drawn
       IN  /\ run.left
           /\ \E fault \in {"none", "get", "drawContours", "circle"},
                 before \in {0, n - 1} :
              /\ fault = "circle" => before >= 0
              /\ fault # "circle" => before = 0
              /\ uaf' = uaf \cup UsedAfterDelete({CONTOURS} \cup
                           (IF fault = "get" THEN {} ELSE {DST}))
              /\ allocd' = IF fault = "get" THEN allocd ELSE allocd \cup {CNT(idx)}
              /\ IF fault # "none"
                 THEN /\ Catch(fault)
                      /\ plotted' = IF fault = "circle" THEN Append(plotted, before)
                                    ELSE plotted
                      /\ drawLog' = IF fault = "circle"
                                    THEN drawLog \o ContourCalls(idx,
                                             SubSeq(run.marks, 1, before))
                                    ELSE drawLog
                      /\ UNCHANGED <<dels, idx>>
                 ELSE /\ NoThrow(LoopOrRender(idx + 1, Len(contourRows)))
                      /\ plotted' = Append(plotted, n)
                      /\ drawLog' = drawLog \o ContourCalls(idx, run.marks)
                      /\ dels' = [dels EXCEPT ![CNT(idx)] = @ + 1]
                      /\ idx' = idx + 1
    /\ uiFrame
    /\ UNCHANGED <<canvas, params, srcBuf, dims, dsizeReq, contourRows>>

\* canvasEl.width = dst.cols; canvasEl.height = dst.rows; cv.imshow(canvasEl, dst)
\* Assigning the width or height of a canvas clears it.
Render ==
    /\ pc = "render"
    /\ uaf' = uaf \cup UsedAfterDelete({DST})
    /\ \E fail \in BOOLEAN :
         IF fail
         THEN /\ Catch("imshow")
              /\ canvas' = [w |-> dims[1], h |-> dims[2], content |-> "cleared"]
         ELSE /\ NoThrow("cleanup")
              /\ canvas' = [w |-> dims[1], h |-> dims[2], content |-> "frame"]
    /\ uiFrame
    /\ UNCHANGED <<params, srcBuf, dims, dsizeReq, allocd, dels, contourRows,
                   idx, plotted, drawLog>>

\* Faulty variant: hierarchy.delete() is missing.
CleanupListLeak(s) == <<s, DST, GRAY, BLUR, EDGES, CONTOURS>>

\* the buffers of src.delete(); dst.delete(); ... hierarchy.delete()
CleanupList(s) == <<s, DST, GRAY, BLUR, EDGES, CONTOURS, HIERARCHY>>

Occurrences(seq, b) == Cardinality({k \in 1..Len(seq) : seq[k] = b})

Cleanup ==
    /\ pc = "cleanup"
    /\ dels' = [b \in Buffers |-> dels[b] + Occurrences(CleanupList(srcBuf), b)]
    /\ NoThrow("status")
    /\ uiFrame
    /\ UNCHANGED <<canvas, params, srcBuf, dims, dsizeReq, allocd, uaf,
                   contourRows, idx, plotted, drawLog>>

\* what contours.size() can yield: the size of a live vector; on a deleted
\* vector the binding throws (-1) or a stale or arbitrary value is read
SizeOutcomes == IF dels[CONTOURS] > 0 THEN -1..MaxContours ELSE {Len(contourRows)}

\* setStatus(`Done. Contours found: ${contours.size()}`)
ReportDone ==
    /\ pc = "status"
    /\ uaf' = uaf \cup UsedAfterDelete({CONTOURS})
    /\ \E size \in SizeOutcomes :
         IF size < 0
         THEN Catch("size")
         ELSE /\ result' = StatusDone(size)
              /\ status' = SetStatus(StatusDone(size))
              /\ pc' = "done"
              /\ UNCHANGED threw
    /\ uiFrame
    /\ UNCHANGED <<canvas, params, srcBuf, dims, dsizeReq, allocd, dels,
                   contourRows, idx, plotted, drawLog>>

\* the callback returns to the event loop; its locals are gone
Return ==
    /\ pc = "done"
    /\ pc' = "idle"
    /\ params' = NoParams
    /\ srcBuf' = SRC
    /\ dims' = <<0, 0>>
    /\ dsizeReq' = NoSize
    /\ allocd' = {}
    /\ dels' = NoDels
    /\ uaf' = {}
    /\ contourRows' = <<>>
    /\ idx' = 0
    /\ plotted' = <<>>
    /\ drawLog' = <<>>
    /\ threw' = "none"
    /\ result' = StatusEmpty
    /\ UNCHANGED uiVars

-----------------------------------------------------------------------------

Next ==
    \/ ReadyTimer
    \/ Teardown
    \/ \E file \in Files \cup {NoFile} : OnFile(file)
    \/ ImgLoad
    \/ ImgError
    \/ \E v \in StepValues : SetStep(v)
    \/ \E v \in Canny1Values : SetCanny1(v)
    \/ \E v \in Canny2Values : SetCanny2(v)
    \/ RunContours
    \/ TaskStart
    \/ Downscale
    \/ Clone
    \/ CvtColor
    \/ GaussianBlur
    \/ Canny
    \/ FindContours
    \/ Annotate
    \/ Render
    \/ Cleanup
    \/ ReportDone
    \/ Return

\* The whole component.
Spec == Init /\ [][Next]_vars

\* The component with the two threshold sliders left at their defaults.
NextStride ==
    \/ ReadyTimer
    \/ Teardown
    \/ \E file \in Files \cup {NoFile} : OnFile(file)
    \/ ImgLoad
    \/ ImgError
    \/ \E v \in StepValues : SetStep(v)
    \/ RunContours
    \/ TaskStart
    \/ Downscale
    \/ Clone
    \/ CvtColor
    \/ GaussianBlur
    \/ Canny
    \/ FindContours
    \/ Annotate
    \/ Render
    \/ Cleanup
    \/ ReportDone
    \/ Return

SpecStride == Init /\ [][NextStride]_vars

\* downscaleIfNeeded on its own: the callback has just decoded an image of
\* any size in Sides x Sides.
Sides ==
    (1..SideSpread)
      \cup ((MaxDim - SideSpread)..(MaxDim + SideSpread))
      \cup ((2 * MaxDim - SideSpread)..(2 * MaxDim + SideSpread))
      \cup {11, 159, 600, 800, 1000, 1696, 1760, 2000}

DsInit ==
    /\ mounted = TRUE
    /\ ready = TRUE
    /\ readyTimer = FALSE
    /\ status = StatusProcessing
    /\ step = DefaultStep
    /\ canny1 = DefaultCanny1
    /\ canny2 = DefaultCanny2
    /\ objectUrl = 1
    /\ liveUrls = {1}
    /\ nextUrl = 1
    /\ img = [src |-> 1, cur |-> 1, pend |-> NoFile]
    /\ canvas = [w |-> 300, h |-> 150, content |-> "initial"]
    /\ tasks = <<>>
    /\ lastEvent = "task"
    /\ pc = "downscale"
    /\ params = [step |-> DefaultStep, canny1 |-> DefaultCanny1,
                 canny2 |-> DefaultCanny2]
    /\ srcBuf = SRC
    /\ dims \in Sides \X Sides
    /\ dsizeReq = NoSize
    /\ allocd = {SRC}
    /\ dels = NoDels
    /\ uaf = {}
    /\ contourRows = <<>>
    /\ idx = 0
    /\ plotted = <<>>
    /\ drawLog = <<>>
    /\ threw = "none"
    /\ result = StatusEmpty

SpecDownscale == DsInit /\ [][Downscale]_vars


-----------------------------------------------------------------------------
\* Properties

RECURSIVE SumDels(_)
SumDels(S) == IF S = {} THEN 0
              ELSE LET b == CHOOSE x \in S : TRUE
                   IN  dels[b] + SumDels(S \ {b})

\* delete() calls and allocations of the running callback
Releases == SumDels(Buffers)
Allocations == Cardinality(allocd)

\* the buffers a run allocates when every stage up to the cleanup succeeds
ExpectedBuffers ==
    {SRC, DST, GRAY, BLUR, EDGES, CONTOURS, HIERARCHY}
      \cup (IF dsizeReq # NoSize THEN {RESIZED} ELSE {})
      \cup {CNT(k) : k \in 0..(Len(contourRows) - 1)}

\* the run went through every stage and its cleanup
CleanedUp == pc = "status" \/ (pc = "done" /\ threw \in {"none", "size"})

\* C1: when no stage up to the cleanup fails, the run has allocated the
\* decoded source, the resized source if it downscaled, dst, gray, blur,
\* edges, contours, hierarchy and one handle per contour, and each of them
\* has been deleted exactly once before and when the final status is set.
C1_EveryBufferReleasedOnce ==
    CleanedUp =>
        /\ allocd = ExpectedBuffers
        /\ \A b \in Buffers : dels[b] = (IF b \in allocd THEN 1 ELSE 0)

C1_Witness ==
    /\ pc = "done" /\ threw = "none"
    /\ RESIZED \in allocd
    /\ Len(contourRows) = MaxContours

\* C2: when a stage between imread and imshow throws, the run has released
\* as many buffers as it allocated by the time it sets the error status.
C2_BalancedOnThrow ==
    (pc = "done" /\ threw \notin {"none", "size"}) => Releases = Allocations

\* C3: at most one object URL is live at any time, it is the one the
\* component holds, and none is live after teardown.
C3_AtMostOneLiveUrl ==
    /\ Cardinality(liveUrls) <= 1
    /\ liveUrls = (IF objectUrl = 0 THEN {} ELSE {objectUrl})
    /\ ~mounted => liveUrls = {}

C3_Witness == nextUrl >= 2 /\ liveUrls = {nextUrl}

\* runs dispatched by a click and not yet finished
Unfinished == Len(tasks) + (IF pc = "idle" THEN 0 ELSE 1)

\* C4: at most one pipeline run is dispatched and unfinished at any time.
C4_SingleFlight == Unfinished <= 1

\* C5: when max(width, height) <= maxDimension, downscaleIfNeeded returns the
\* buffer it was given: no resize is requested, nothing is allocated and
\* nothing is deleted.
C5_SmallImageUntouched ==
    [][(pc = "downscale" /\ Max(dims[1], dims[2]) <= MaxDim) =>
          /\ pc' = "clone"
          /\ srcBuf' = srcBuf
          /\ dims' = dims
          /\ dsizeReq' = NoSize
          /\ allocd' = allocd
          /\ dels' = dels]_vars

C5_Witness ==
    /\ pc = "clone" /\ dsizeReq = NoSize
    /\ Max(dims[1], dims[2]) = MaxDim
    /\ srcBuf = SRC /\ allocd = {SRC}

\* |2 * out * maxSide - 2 * in * maxDim| <= maxSide: out is within 1/2 of
\* in * maxDim / maxSide
NearestTo(out, in, maxDim, maxSide) ==
    /\ 2 * out * maxSide - 2 * in * maxDim <= maxSide
    /\ 2 * in * maxDim - 2 * out * maxSide <= maxSide

\* C6: when max(width, height) > maxDimension, the size requested from the
\* resize is each side times maxDimension / max(width, height) rounded to the
\* nearest integer: the larger side becomes maxDimension, no side grows,
\* 2000x1000 becomes 1200x600, and the buffer returned has that size.
C6_DownscaledSize ==
    [][(pc = "downscale" /\ Max(dims[1], dims[2]) > MaxDim) =>
          LET w == dims[1]
              h == dims[2]
              maxSide == Max(w, h)
              ow == dsizeReq'[1]
              oh == dsizeReq'[2]
          IN  /\ NearestTo(ow, w, MaxDim, maxSide)
              /\ NearestTo(oh, h, MaxDim, maxSide)
              /\ Max(ow, oh) = MaxDim
              /\ (w >= h) => ow = MaxDim
              /\ (h >= w) => oh = MaxDim
              /\ ow <= w /\ oh <= h
              /\ (w = 2000 /\ h = 1000) => (ow = 1200 /\ oh = 600)
              /\ pc' = "clone" => (dims' = dsizeReq' /\ srcBuf' = RESIZED)]_vars

C6_Witness ==
    /\ pc = "clone" /\ srcBuf = RESIZED
    /\ dsizeReq = <<1200, 600>> /\ dims = <<1200, 600>>

\* C7: a run in which no stage fails sets the status to done with the number
\* of contours found.
C7_DoneWithCount ==
    (pc = "done" /\ threw \in {"none", "size"}) =>
        result = StatusDone(Len(contourRows))

\* C8: a throw of any stage is caught in the callback: the status argument is
\* the processing error with that failure's message, it is the status shown
\* while mounted, ready is as it was, and the callback returns to the event
\* loop leaving the component state as it is.
C8_FailureCaught ==
    /\ [](pc = "done" /\ threw # "none" =>
            /\ result = StatusError(threw)
            /\ mounted => status = StatusError(threw)
            /\ ready)
    /\ [][(pc' = "done" /\ threw' # "none") =>
            /\ ready' = ready
            /\ mounted' = mounted
            /\ tasks' = tasks \/ (pc = "idle" /\ tasks' = Tail(tasks))]_vars
    /\ [][(pc = "done" /\ threw # "none") =>
            (pc' = "idle" /\ UNCHANGED uiVars)]_vars

C8_Witness == pc = "done" /\ threw = "Canny" /\ mounted /\ tasks # <<>>

\* C9: a click while ready with no image source sets the status to "Please
\* upload an image first.", schedules nothing, allocates nothing and leaves
\* the canvas and the parameters as they were.
C9_NoImageClick ==
    [][(lastEvent' = "click" /\ ready /\ img.src = 0) =>
          /\ status' = StatusUploadFirst
          /\ tasks' = tasks
          /\ UNCHANGED <<canvas, step, canny1, canny2>>
          /\ UNCHANGED runVars]_vars

C9_Witness ==
    /\ lastEvent = "click" /\ status = StatusUploadFirst
    /\ ready /\ img.src = 0 /\ tasks = <<>> /\ allocd = {}

\* C10: an upload event with an empty selection leaves the status, the held
\* object URL (still live), the image element and the canvas as they were.
C10_EmptySelectionIgnored ==
    [][lastEvent' = "onFileEmpty" =>
          UNCHANGED <<mounted, ready, readyTimer, status, step, canny1, canny2,
                      objectUrl, liveUrls, nextUrl, img, canvas, tasks, pc,
                      params, srcBuf, dims, dsizeReq, allocd, dels, uaf,
                      contourRows, idx, plotted, drawLog, threw, result>>]_vars

C10_Witness ==
    /\ lastEvent = "onFileEmpty"
    /\ objectUrl # 0 /\ objectUrl \in liveUrls
    /\ status = StatusLoaded

-----------------------------------------------------------------------------
\* a click while no dispatched run is pending
ClickWhenNonePending == tasks = <<>> /\ RunContours

\* The component with all three sliders and clicks only while no dispatched
\* run is pending.
NextSliders ==
    \/ ReadyTimer
    \/ Teardown
    \/ \E file \in Files \cup {NoFile} : OnFile(file)
    \/ ImgLoad
    \/ ImgError
    \/ \E v \in StepValues : SetStep(v)
    \/ \E v \in Canny1Values : SetCanny1(v)
    \/ \E v \in Canny2Values : SetCanny2(v)
    \/ ClickWhenNonePending
    \/ TaskStart
    \/ Downscale
    \/ Clone
    \/ CvtColor
    \/ GaussianBlur
    \/ Canny
    \/ FindContours
    \/ Annotate
    \/ Render
    \/ Cleanup
    \/ ReportDone
    \/ Return

SpecSliders == Init /\ [][NextSliders]_vars

\* the parameters as a click captures them
CurrentParams == [step |-> step, canny1 |-> canny1, canny2 |-> canny2]

\* C11: a slider event changes its own parameter and nothing else (status,
\* canvas, image, queue of dispatched runs, running callback); a click
\* dispatches a run with the parameters of that moment, the callback runs
\* with exactly those and draws its markers at that stride; no step of the
\* callback changes a parameter.
C11_SlidersOnlySetTheirValue ==
    /\ [][lastEvent' = "setStep" =>
            /\ UNCHANGED <<canny1, canny2>>
            /\ UNCHANGED <<mounted, ready, readyTimer, status, objectUrl,
                           liveUrls, nextUrl, img, canvas, tasks>>
            /\ UNCHANGED runVars]_vars
    /\ [][lastEvent' = "setCanny1" =>
            /\ UNCHANGED <<step, canny2>>
            /\ UNCHANGED <<mounted, ready, readyTimer, status, objectUrl,
                           liveUrls, nextUrl, img, canvas, tasks>>
            /\ UNCHANGED runVars]_vars
    /\ [][lastEvent' = "setCanny2" =>
            /\ UNCHANGED <<step, canny1>>
            /\ UNCHANGED <<mounted, ready, readyTimer, status, objectUrl,
                           liveUrls, nextUrl, img, canvas, tasks>>
            /\ UNCHANGED runVars]_vars
    /\ [][(lastEvent' = "click" /\ tasks' # tasks) =>
            tasks' = Append(tasks, CurrentParams)]_vars
    /\ [][(pc = "idle" /\ pc' # "idle") =>
            (params' = Head(tasks) /\ tasks' = Tail(tasks))]_vars
    /\ [][(pc # "idle" /\ pc' # "idle") => params' = params]_vars
    /\ [][(pc # "idle" \/ pc' # "idle") => UNCHANGED <<step, canny1, canny2>>]_vars
    /\ [][idx' = idx + 1 =>
            plotted'[idx'] = Markers(contourRows[idx'], Max(1, params.step))]_vars

C11_Witness ==
    /\ pc = "render" /\ plotted # <<>>
    /\ params.step # step /\ params.canny1 # canny1 /\ params.canny2 # canny2

-----------------------------------------------------------------------------
\* The annotation loop on its own: findContours has just returned one
\* contour of any length in RowsTried, and the stride slider was anywhere in
\* its range min="1" max="30" when the run was dispatched.
StrideRange == 1..30

RowsTried == {1, 2, 29, 30, 31, 2999, 3000, 3001, 3002, 3003, 6001, 6002,
              89999, 90001, 90031}

MarkInit ==
    /\ mounted = TRUE
    /\ ready = TRUE
    /\ readyTimer = FALSE
    /\ status = StatusProcessing
    /\ step \in StrideRange
    /\ canny1 = DefaultCanny1
    /\ canny2 = DefaultCanny2
    /\ objectUrl = 1
    /\ liveUrls = {1}
    /\ nextUrl = 1
    /\ img = [src |-> 1, cur |-> 1, pend |-> NoFile]
    /\ canvas = [w |-> 300, h |-> 150, content |-> "initial"]
    /\ tasks = <<>>
    /\ lastEvent = "task"
    /\ pc = "loop"
    /\ params = CurrentParams
    /\ srcBuf = SRC
    /\ dims = FileDims(1)
    /\ dsizeReq = NoSize
    /\ allocd = {SRC, DST, GRAY, BLUR, EDGES, CONTOURS, HIERARCHY}
    /\ dels = NoDels
    /\ uaf = {}
    /\ \E rows \in RowsTried, more \in {<<>>, <<31>>} :
          contourRows = <<rows>> \o more
    /\ idx = 0
    /\ plotted = <<>>
    /\ drawLog = <<>>
    /\ threw = "none"
    /\ result = StatusEmpty

SpecMarkers == MarkInit /\ [][Annotate]_vars

\* C12: no contour gets more than 3000 markers.
C12_AtMostCapMarkers ==
    \A k \in DOMAIN plotted : plotted[k] <= MAX_PLOT_POINTS

-----------------------------------------------------------------------------
\* C13: every step leaves the canvas showing what it showed, with the size
\* it had, or makes it show the complete annotated frame at the size of dst;
\* a step that throws leaves the previous frame.
C13_NoPartialFrame ==
    [][/\ \/ canvas' = canvas
          \/ canvas' = [w |-> dims[1], h |-> dims[2], content |-> "frame"]
       /\ (threw' # "none" /\ threw = "none") => canvas' = canvas]_vars


-----------------------------------------------------------------------------
\* The number of indices 0, stride, 2*stride, ... below rows.
IndicesBelow(rows, stride) == (rows + stride - 1) \div stride

\* The calls made for contour i when m markers are drawn with the given
\* stride: the outline first, then the circles at 0, stride, 2*stride, ...
CallsFor(i, m, stride) ==
    [k \in 1..(m + 1) |-> IF k = 1 THEN DrawContoursCall(i)
                          ELSE CircleCall(i, (k - 2) * stride)]

RECURSIVE CallsUpTo(_, _, _)
CallsUpTo(n, counts, stride) ==
    IF n = 0 THEN <<>>
    ELSE CallsUpTo(n - 1, counts, stride) \o CallsFor(n - 1, counts[n], stride)

\* C14: while no call has thrown, the drawing calls made so far are, for the
\* contours 0, 1, ... handled so far in that order, the outline of the
\* contour followed by its markers at the vertex indices 0, stride,
\* 2*stride, ... in increasing order, going on to the last such index below
\* the vertex count unless the cap has stopped the loop; with stride 1 and
\* the cap not reached the markers are at every index 0 .. rows - 1.
C14_OutlineThenStridedMarkers ==
    threw = "none" =>
        /\ Len(plotted) = idx
        /\ drawLog = CallsUpTo(idx, plotted, Max(1, params.step))
        /\ \A k \in 1..idx :
              LET all == IndicesBelow(contourRows[k], Max(1, params.step))
              IN  /\ plotted[k] <= all
                  /\ plotted[k] = all \/ plotted[k] >= MAX_PLOT_POINTS
                  /\ (params.step = 1 /\ contourRows[k] <= MAX_PLOT_POINTS)
                        => plotted[k] = contourRows[k]

\* Both contours annotated, the first one stopped by the cap, the second one
\* with more than one marker at a stride above 1.
C14_Witness ==
    /\ threw = "none" /\ idx = 2
    /\ plotted[1] >= MAX_PLOT_POINTS /\ plotted[2] > 1
    /\ params.step > 1
    /\ drawLog[Len(drawLog)].call = "circle"
    /\ drawLog[Len(drawLog)].vertex > 0


-----------------------------------------------------------------------------
FinalStatus(s) == s.text \in {StatusDone(0).text, StatusError("").text}

\* C15: a click taken while ready with an image source sets the status to
\* processing and schedules one callback without allocating a buffer or
\* starting the pipeline; callbacks are scheduled by such clicks only; a
\* buffer is allocated only in a step of a callback, which starts by taking
\* the oldest scheduled callback off the queue; and a done or error status
\* is set only by a running callback, hence after its click set processing.
C15_ProcessingThenDeferredRun ==
    [][/\ (lastEvent' = "click" /\ ready /\ img.src # 0)
             => /\ status' = StatusProcessing
                /\ tasks' = Append(tasks, CurrentParams)
                /\ allocd' = {} /\ allocd = {}
                /\ pc' = "idle"
       /\ Len(tasks') > Len(tasks)
             => /\ lastEvent' = "click" /\ ready /\ img.src # 0
                /\ status' = StatusProcessing
       /\ ~(allocd' \subseteq allocd)
             => /\ lastEvent' = "task"
                /\ pc = "idle" => (tasks # <<>> /\ tasks' = Tail(tasks))
       /\ (pc = "idle" /\ pc' # "idle")
             => (tasks # <<>> /\ tasks' = Tail(tasks) /\ lastEvent' = "task")
       /\ ((status' # status \/ result' # result)
              /\ (FinalStatus(status') \/ FinalStatus(result')))
             => (lastEvent' = "task" /\ tasks' # Append(tasks, CurrentParams))
      ]_vars

\* A click has just been accepted: the status says processing, the callback
\* is scheduled and nothing has been allocated.
C15_Witness ==
    /\ lastEvent = "click" /\ tasks # <<>>
    /\ status = StatusProcessing
    /\ pc = "idle" /\ allocd = {}


-----------------------------------------------------------------------------
\* The steps of a started callback up to its last statement.
RunStep ==
    \/ Downscale
    \/ Clone
    \/ CvtColor
    \/ GaussianBlur
    \/ Canny
    \/ FindContours
    \/ Annotate
    \/ Render
    \/ Cleanup
    \/ ReportDone

\* The component with one file to upload and the sliders left alone.
NextLive ==
    \/ ReadyTimer
    \/ Teardown
    \/ \E file \in {1} : OnFile(file)
    \/ ImgLoad
    \/ RunContours
    \/ TaskStart
    \/ RunStep
    \/ Return

\* The event loop is fair: a timer callback that is due is run, and the
\* callback, which is synchronous, goes on to its end and returns.
Fairness ==
    /\ WF_vars(TaskStart)
    /\ WF_vars(RunStep)
    /\ WF_vars(Return)

SpecLive == Init /\ [][NextLive]_vars /\ Fairness

Finished == pc = "done" /\ FinalStatus(result)

\* C16: whenever callbacks are scheduled the oldest of them is started;
\* a callback that has started reaches its end having called setStatus with
\* the done status and a count or with the error status; and a finished
\* callback returns, so that the next scheduled one gets its turn.
C16_EveryRunFinishes ==
    /\ (tasks # <<>>) ~> (pc # "idle" /\ lastEvent = "task")
    /\ (pc # "idle") ~> Finished
    /\ Finished ~> (pc = "idle")

\* A callback has finished with the done status after the component was
\* torn down, and another one is still scheduled.
C16_Witness ==
    /\ Finished /\ result = StatusDone(Len(contourRows))
    /\ plotted # <<>> /\ tasks # <<>> /\ ~mounted


-----------------------------------------------------------------------------
\* C17: no call of a run uses a buffer that the run has already deleted.
C17_NoUseAfterDelete == uaf = {}


-----------------------------------------------------------------------------
\* C18: a size requested from cv.resize has a width and a height of at
\* least 1, rounding on an exact half aside, and the original buffer has
\* been released once when the call has returned.
C18_TargetSidesAtLeastOne ==
    dsizeReq # NoSize =>
        /\ \A i \in {1, 2} :
              \/ dsizeReq[i] >= 1
              \/ /\ threw = "resize"
                 /\ RoundScaled(dims[i], MaxDim, Max(dims[1], dims[2]))
                       # {dsizeReq[i]}
        /\ threw = "none" => dels[SRC] = 1


-----------------------------------------------------------------------------
\* C19: while a callback runs, the image element it read at its start is not
\* loading a selected file: the load of the file selected last has completed.
C19_ReadsAfterLoadOfLatestFile == pc # "idle" => img.pend = NoFile


-----------------------------------------------------------------------------
\* C20: once the component is torn down, no step sets the ready flag, starts
\* or continues a callback, allocates a buffer or writes the canvas.
C20_NothingRunsAfterTeardown ==
    [][~mounted => /\ ready' = ready
                   /\ pc' = "idle"
                   /\ allocd' = {}
                   /\ canvas' = canvas]_vars

====
